---------------------------- MODULE Spec2Model ----------------------------
(***************************************************************************)
(* BayesianProteinInferenceAlgorithm::inferPosteriorProbabilities and the  *)
(* per-connected-component functors it applies to the identification       *)
(* graph (GraphInferenceFunctor, AnnotateIndistGroupsFunctor) together     *)
(* with the grid search over (alpha, beta, gamma).                         *)
(*                                                                         *)
(* Probabilities are integers in thousandths: 1000 is 1.0, -1000 is -1.0.  *)
(***************************************************************************)
EXTENDS Integers, Sequences, FiniteSets, TLC

VARIABLES
  pc,             \* position of inferPosteriorProbabilities
  param,          \* param_: the parameters the functors read
  score,          \* per vertex: ProteinHit / PeptideHit score, group value
  prior,          \* "Prior" meta value, per protein hit that carries one
  groups,         \* proteinIDs[0].getIndistinguishableProteins()
  search,         \* alpha_search, beta_search, gamma_search
  bestParams,     \* std::array<size_t,3> bestParams (0-based indices)
  bestValue,      \* best score seen by GridSearch::evaluate
  combo,          \* number of grid tuples GridSearch::evaluate has finished
  saved,          \* locals update_PSM_probabilities, annotate_group_posteriors
  annIdx,         \* next connected component of applyFunctorOnCCsST
  fpc,            \* per CC: position of the running GraphInferenceFunctor
  acquired,       \* per CC: graph_mp_ownership_acquired
  posteriorVars,  \* per CC: posteriorVars of the running functor
  factors,        \* per CC: factors handed to bigb.insert_dependency
  thrown,         \* per CC: the exception in flight, "none" if none
  scheduler,      \* per CC: the scheduler the functor constructed and how
                  \* estimate_posteriors ended
  \* inputs of the run, changed by no action
  shape,          \* which identification graph IDBoostGraph hands out
  functor,        \* the functor class applied to the components
  \* history variables, read by no action guard
  entry,          \* parameters and scores at the call
  evalMax,        \* the highest value the scoring callback has returned,
                  \* with the first tuple it was returned for
  evalCount,      \* per grid tuple: how often it was evaluated
  passes,         \* counters: grid passes, final passes, scoring calls
  outcome,        \* per CC: how the functor of the current pass ended
  reads,          \* per CC: vertices whose hit data the functor read
  writes,         \* per CC: vertices whose data the functor wrote
  toGraph,        \* per CC: calls of bigb.to_graph() in this invocation
  warned,         \* per CC: LOG_WARN emitted in this invocation
  pmfs,           \* per CC: the marginals estimate_posteriors returned
  groupSrc        \* per emitted group record: the vertex it came from

vars == <<pc, param, score, prior, groups, search, bestParams, bestValue,
          combo, saved, annIdx, fpc, acquired, posteriorVars, factors, thrown,
          scheduler, shape, functor,
          entry, evalMax, evalCount, passes, outcome, reads, writes,
          toGraph, warned, pmfs, groupSrc>>

---------------------------------------------------------------------------
(* Bounds of the model *)

NumCCs == 3
MaxScore == 1

---------------------------------------------------------------------------
(* The identification graph handed to the functors *)

ProteinKind == 0
ProteinGroupKind == 1
PeptideGroupKind == 2
PSMKind == 6
\* A which() value none of the arms of the functor's dispatch tests for
OtherKind == 3

CCs == 1..NumCCs

\* The identification graphs of the model, selected by the variable shape.
\*   "regular":    component 1 is protein 1 - PSM 2; component 2 is proteins
\*                 3, 4 - protein group 5 - peptide group 6 - PSM 7.
\*   "two_groups": component 1 is protein 1 - protein group 2; component 2 is
\*                 protein 3 - protein group 4 - PSM 7 - protein group 6 -
\*                 protein 5.
\*   "psm_pair":   component 1 is PSM 1 - PSM 2, a component in which no PSM
\*                 has a neighbour of lower kind; component 2 as in "regular".
\*   "other_kind": as "regular", but vertex 6 between the protein group and
\*                 the PSM is of a kind the functor has no arm for.
\* Every further component is one isolated protein.
Shapes == {"regular", "two_groups", "psm_pair", "other_kind"}

\* Vertices of a connected component in vertex iteration order
VertexSeq(c) ==
  IF c = 1 THEN <<1, 2>>
  ELSE IF c = 2 THEN <<3, 4, 5, 6, 7>>
  ELSE <<5 + c>>

Range(s) == {s[i] : i \in 1..Len(s)}

Vertices(c) == Range(VertexSeq(c))

AllVertices == UNION {Vertices(c) : c \in CCs}

CCOf(v) == CHOOSE c \in CCs : v \in Vertices(c)

\* fg[v].which()
Kind(v) ==
  IF shape = "two_groups"
  THEN CASE v = 7 -> PSMKind
         [] v \in {2, 4, 6} -> ProteinGroupKind
         [] OTHER -> ProteinKind
  ELSE CASE v \in {2, 7} -> PSMKind
         [] v = 1 /\ shape = "psm_pair" -> PSMKind
         [] v = 5 -> ProteinGroupKind
         [] v = 6 /\ shape # "other_kind" -> PeptideGroupKind
         [] v = 6 /\ shape = "other_kind" -> OtherKind
         [] OTHER -> ProteinKind

\* boost::adjacent_vertices(v, fg), in iteration order
Adj(v) ==
  IF shape = "two_groups"
  THEN CASE v = 1 -> <<2>>
         [] v = 2 -> <<1>>
         [] v = 3 -> <<4>>
         [] v = 4 -> <<3, 7>>
         [] v = 5 -> <<6>>
         [] v = 6 -> <<5, 7>>
         [] v = 7 -> <<4, 6>>
         [] OTHER -> << >>
  ELSE CASE v = 1 -> <<2>>
         [] v = 2 -> <<1>>
         [] v = 3 -> <<5>>
         [] v = 4 -> <<5>>
         [] v = 5 -> <<3, 4, 6>>
         [] v = 6 -> <<5, 7>>
         [] v = 7 -> <<6>>
         [] OTHER -> << >>

\* ProteinHit::getAccession() of a protein vertex
Accession(v) == v

\* PeptideHit::getPeptideEvidences().size() of a PSM vertex
NrEvidences(v) == IF v = 7 THEN 2 ELSE 1

Proteins == {v \in AllVertices : Kind(v) = ProteinKind}
PSMs == {v \in AllVertices : Kind(v) = PSMKind}
ProteinGroups == {v \in AllVertices : Kind(v) = ProteinGroupKind}

\* Scores of the hits when inferPosteriorProbabilities is called: a protein
\* score is whatever the caller left there (a search-engine score such as 2.0
\* as well as a probability), a PSM score is a probability, a group value
\* starts at 0.
EntryScore ==
  [v \in AllVertices |->
     CASE v = 2 /\ Kind(v) = PSMKind -> 900
       [] v = 3 -> 250
       [] v = 7 -> 400
       [] Kind(v) = ProteinKind -> 2000
       [] OTHER -> 0]

---------------------------------------------------------------------------
(* The connected component fg as the functors see it: vertex descriptors  *)
(* are the positions 1..num_vertices(fg) (0-based in the code), and fg[i] *)
(* is the hit or group value behind descriptor i.                         *)

NumVertices(c) == Len(VertexSeq(c))

\* Mutant: the descriptor is resolved in the whole graph, not in fg.
FgWholeGraph(c, i) == i

\* fg[i]: the data behind descriptor i of component c
Fg(c, i) == VertexSeq(c)[i]

Which(c, i) == Kind(Fg(c, i))

LocalOf(c, v) == CHOOSE i \in 1..NumVertices(c) : VertexSeq(c)[i] = v

\* boost::adjacent_vertices(i, fg) as descriptors of fg
AdjLocal(c, i) ==
  LET a == Adj(VertexSeq(c)[i]) IN [k \in 1..Len(a) |-> LocalOf(c, a[k])]

\* Lines 148-161: in = neighbours of strictly lower kind
In(c, i) ==
  LET a == AdjLocal(c, i)
      lower(n) == Which(c, n) < Which(c, i)
  IN  SelectSeq(a, lower)

---------------------------------------------------------------------------
(* Grid axes, lines 801-832 *)

DefaultAlphaSearch == <<100, 300, 500, 700, 900>>
DefaultBetaSearch == <<1>>
DefaultGammaSearch == <<500>>

\* Mutant: the sweep is chosen only for the default value -1.
AlphaSearchOnlyMinusOne(alpha) ==
  IF alpha = -1000 THEN DefaultAlphaSearch ELSE <<alpha>>

AlphaSearch(alpha) ==
  IF alpha > 1000 \/ alpha < 0 THEN DefaultAlphaSearch ELSE <<alpha>>

BetaSearch(beta) ==
  IF beta > 1000 \/ beta < 0 THEN DefaultBetaSearch ELSE <<beta>>

GammaSearch(gamma) ==
  IF gamma > 1000 \/ gamma < 0 THEN DefaultGammaSearch ELSE <<gamma>>

\* GridSearch::getNrCombos()
NrCombos(s) == Len(s.alpha) * Len(s.beta) * Len(s.gamma)

\* The n-th tuple (n from 0) GridSearch::evaluate visits, as 0-based indices
\* into the three axes.
ComboIndex(s, n) ==
  <<n % Len(s.alpha),
    (n \div Len(s.alpha)) % Len(s.beta),
    (n \div (Len(s.alpha) * Len(s.beta))) % Len(s.gamma)>>

TupleAt(s, idx) ==
  <<s.alpha[idx[1] + 1], s.beta[idx[2] + 1], s.gamma[idx[3] + 1]>>

GridTuples(s) == {TupleAt(s, ComboIndex(s, n)) : n \in 0..(NrCombos(s) - 1)}

\* What FalseDiscoveryRate::applyEvaluateProteinIDs may return
ScoreValues == 0..MaxScore

\* The start value handed to GridSearch::evaluate (-1.0), below every score
StartValue == -1

\* GridSearch::evaluate keeps a tuple when its score is strictly higher than
\* the best one so far.
GridSearchBetter(s, best) == s > best

---------------------------------------------------------------------------
(* Posterior marginals *)

\* A PMF is a first support index and a table.
PMFs == {[first |-> 0, table |-> <<300, 700>>],
         [first |-> 1, table |-> <<1000>>]}

\* Marginals with other supports: a variable that counts the present
\* members of a group has the support 0..n, trimmed to its non-zero part.
SupportPMFs ==
  {[first |-> f, table |-> t] :
     f \in 0..2, t \in {<<1000>>, <<300, 700>>, <<600, 400>>}}

LastSupport(pmf) == pmf.first + Len(pmf.table) - 1

\* Mutant: sign slip, table()[0] - 1 instead of 1 - table()[0].
PosteriorSignSlip(pmf) ==
  IF 0 >= pmf.first /\ 0 <= LastSupport(pmf) THEN pmf.table[1] - 1000 ELSE 1000

\* Mutant: posterior starts at 0.0, as in the extended functor.
PosteriorZeroDefault(pmf) ==
  IF 0 >= pmf.first /\ 0 <= LastSupport(pmf) THEN 1000 - pmf.table[1] ELSE 0

\* Lines 225-234: posterior = 1.0, replaced by 1 - table()[0] when 0 is in
\* the support
Posterior(pmf) ==
  IF 0 >= pmf.first /\ 0 <= LastSupport(pmf) THEN 1000 - pmf.table[1] ELSE 1000

\* Lines 375-383 (ExtendedGraphInferenceFunctor): posterior = 0.0, replaced
\* by table()[1 - first_support] when 1 is in the support
PosteriorExtended(pmf) ==
  IF 1 >= pmf.first /\ 1 <= LastSupport(pmf)
  THEN pmf.table[(1 - pmf.first) + 1] ELSE 0

\* The value the write-back loop of the running functor class hands to the
\* visitor
WrittenValue(pmf) ==
  IF functor = "Extended" THEN PosteriorExtended(pmf) ELSE Posterior(pmf)

\* IDBoostGraph::SetPosteriorVisitor: protein hits, peptide hits and protein
\* groups take the value, every other arm ignores it.
SetPosterior(sc, v, p) ==
  IF Kind(v) \in {ProteinKind, ProteinGroupKind, PSMKind}
  THEN [sc EXCEPT ![v] = p] ELSE sc

---------------------------------------------------------------------------
(* GraphInferenceFunctor, lines 104-262 *)

\* Mutant: PSM posteriors are requested whatever update_PSM_probabilities is.
RequestedAlwaysPSM(c, i, p) ==
  \/ Which(c, i) = PSMKind
  \/ Which(c, i) = ProteinGroupKind /\ p.annotate_group_probabilities
  \/ Which(c, i) = ProteinKind

\* Lines 172-175, 184-187, 203: is the posterior of descriptor i requested
Requested(c, i, p) ==
  \/ Which(c, i) = PSMKind /\ p.update_PSM_probabilities
  \/ Which(c, i) = ProteinGroupKind /\ p.annotate_group_probabilities
  \/ Which(c, i) = ProteinKind

\* Line 355 (ExtendedGraphInferenceFunctor): only proteins are requested
RequestedExtended(c, i) == Which(c, i) = ProteinKind

\* posteriorVars after the vertex loop, in vertex iteration order
PosteriorVarsOf(c, p) ==
  LET req(i) == IF functor = "Extended" THEN RequestedExtended(c, i)
                ELSE Requested(c, i, p)
  IN  SelectSeq([i \in 1..NumVertices(c) |-> i], req)

Factor(t, i, in, n, pr) == [type |-> t, var |-> i, in |-> in, n |-> n, prob |-> pr]

\* Lines 168-169: in[0].  Reading element 0 of an empty vector is undefined;
\* g stands for whatever that read yields.
InZero(c, i, g) == IF In(c, i) # << >> THEN In(c, i)[1] ELSE g

\* Lines 168-169: a PSM whose in is empty when in[0] is read
ReadsEmptyIn(c) ==
  \E i \in 1..NumVertices(c) : Which(c, i) = PSMKind /\ In(c, i) = << >>

\* Mutant: the protein factor is built from the current score of the hit
\* instead of its "Prior" meta value.
ProteinFactorFromScore(c, i, p, sc, pri) ==
  IF functor # "Extended" /\ p.user_defined_priors
  THEN <<Factor("Protein", i, << >>, 0, sc[Fg(c, i)])>>
  ELSE <<Factor("Protein", i, << >>, 0, p.gamma)>>

\* Lines 193-202 (354 in ExtendedGraphInferenceFunctor): the protein factor
\* of descriptor i
ProteinFactor(c, i, p, sc, pri) ==
  IF functor # "Extended" /\ p.user_defined_priors
  THEN <<Factor("Protein", i, << >>, 0, pri[Fg(c, i)])>>
  ELSE <<Factor("Protein", i, << >>, 0, p.gamma)>>

\* Mutant: a PSM gets its SumEvidence factor only.
FactorsOfWithoutEvidence(c, i, p, sc, pri, g) ==
  LET w == Which(c, i)
      in == In(c, i)
  IN  IF w = PSMKind
      THEN <<Factor("SumEvidence", i, <<InZero(c, i, g)>>,
                    NrEvidences(Fg(c, i)), 0)>>
      ELSE IF w = PeptideGroupKind
      THEN <<Factor("PeptideProbabilisticAdder", i, in, 0, 0)>>
      ELSE IF w = ProteinGroupKind
      THEN <<Factor("PeptideProbabilisticAdder", i, in, 0, 0)>>
      ELSE IF w = ProteinKind
      THEN ProteinFactor(c, i, p, sc, pri)
      ELSE << >>

\* Lines 166-204: the factors inserted for descriptor i
FactorsOf(c, i, p, sc, pri, g) ==
  LET w == Which(c, i)
      in == In(c, i)
  IN  IF w = PSMKind
      THEN <<Factor("SumEvidence", i, <<InZero(c, i, g)>>,
                    NrEvidences(Fg(c, i)), 0),
             Factor("PeptideEvidence", i, << >>, 0, sc[Fg(c, i)])>>
      ELSE IF w = PeptideGroupKind
      THEN <<Factor("PeptideProbabilisticAdder", i, in, 0, 0)>>
      ELSE IF w = ProteinGroupKind
      THEN <<Factor("PeptideProbabilisticAdder", i, in, 0, 0)>>
      ELSE IF w = ProteinKind
      THEN ProteinFactor(c, i, p, sc, pri)
      ELSE << >>

RECURSIVE FactorsUpTo(_, _, _, _, _, _)
FactorsUpTo(c, k, p, sc, pri, g) ==
  IF k = 0 THEN << >>
  ELSE FactorsUpTo(c, k - 1, p, sc, pri, g) \o FactorsOf(c, k, p, sc, pri, g)

\* Hit data the vertex loop reads: PSM scores, and "Prior" of the proteins
\* when user_defined_priors is set
ReadSet(c, p) ==
  {Fg(c, i) : i \in {j \in 1..NumVertices(c) :
       \/ Which(c, j) = PSMKind
       \/ /\ Which(c, j) = ProteinKind
          /\ functor # "Extended" /\ p.user_defined_priors}}

\* Lines 223-237: the write-back loop over posteriorFactors; pmfOf gives the
\* marginal estimate_posteriors returned for each requested descriptor
RECURSIVE WriteBack(_, _, _, _)
WriteBack(c, sc, pv, pmfOf) ==
  IF pv = << >> THEN sc
  ELSE WriteBack(c, SetPosterior(sc, Fg(c, Head(pv)),
                                 WrittenValue(pmfOf[Head(pv)])),
                 Tail(pv), pmfOf)

\* Mutant: every exception escapes the functor.
CatchesNothing(e) == FALSE

\* Line 241: catch (const std::runtime_error&)
Catches(e) == e = "runtime_error"


---------------------------------------------------------------------------
(* AnnotateIndistGroupsFunctor, lines 60-90 *)

\* Mutant: the neighbours are not filtered by kind.
AccessionsOfAllNeighbours(c, i) ==
  LET a == AdjLocal(c, i) IN [k \in 1..Len(a) |-> Accession(Fg(c, a[k]))]

\* Lines 74-85: the accessions of the protein neighbours of descriptor i
AccessionsOf(c, i) ==
  LET isProtein(n) == Which(c, n) = ProteinKind
      a == SelectSeq(AdjLocal(c, i), isProtein)
  IN  [k \in 1..Len(a) |-> Accession(Fg(c, a[k]))]

\* Lines 68-88: the descriptors a group record is made for, in order
GroupVerticesOf(c) ==
  LET isGroup(i) == Which(c, i) = ProteinGroupKind
  IN  IF NumVertices(c) >= 2
      THEN SelectSeq([i \in 1..NumVertices(c) |-> i], isGroup)
      ELSE << >>

\* Lines 72-86: the records appended for component c
GroupRecordsOf(c, sc) ==
  LET g == GroupVerticesOf(c)
  IN  [k \in 1..Len(g) |->
         [probability |-> sc[Fg(c, g[k])], accessions |-> AccessionsOf(c, g[k])]]

---------------------------------------------------------------------------
(* inferPosteriorProbabilities, lines 712-916 *)

\* The settings a caller may have configured: (alpha, beta, gamma)
Configs == {<<-1000, -1000, -1000>>, <<900, 10, 400>>}

\* Lines 513-537: the defaults of the loopy_belief_propagation section
DefaultSchedulingType == "priority"
DefaultDampeningLambda == 1
\* 1ul << 31; the model holds 2^31 - 1, the largest integer it can, which
\* like 2^31 is above every iteration count the engine of the model needs
DefaultMaxNrIterations == 2147483647

DefaultLBP ==
  [scheduling_type |-> DefaultSchedulingType,
   dampening_lambda |-> DefaultDampeningLambda,
   max_nr_iterations |-> DefaultMaxNrIterations]

\* Lines 467-537: the restrictions the constructor declares (setMinFloat,
\* setMaxFloat, setValidStrings); a parameter set that violates one is
\* refused when it is set.  dampening_lambda and max_nr_iterations are
\* declared without a restriction.
Admitted(p) ==
  /\ p.update_PSM_probabilities \in BOOLEAN
  /\ p.user_defined_priors \in BOOLEAN
  /\ p.annotate_group_probabilities \in BOOLEAN
  /\ p.gamma >= -1000 /\ p.gamma <= 1000
  /\ p.alpha >= -1000 /\ p.alpha <= 1000
  /\ p.beta >= -1000 /\ p.beta <= 1000
  /\ p.scheduling_type \in {"priority", "fifo", "random_spanning_tree"}

ParamOf(upd, ann, udp, cfg, lbp) ==
  [update_PSM_probabilities |-> upd,
   annotate_group_probabilities |-> ann,
   user_defined_priors |-> udp,
   alpha |-> cfg[1], beta |-> cfg[2], gamma |-> cfg[3],
   scheduling_type |-> lbp.scheduling_type,
   dampening_lambda |-> lbp.dampening_lambda,
   max_nr_iterations |-> lbp.max_nr_iterations]

NoFunctor == [c \in CCs |-> "idle"]

NoScheduler == [type |-> "none", lambda |-> 0, max_nr_iterations |-> 0,
                ended |-> "none"]

\* The state in which inferPosteriorProbabilities is at position at, called
\* with the parameters p on the graph shp and on a protein identification
\* whose list of indistinguishable groups holds the records pre: no functor
\* is running, or, at "final_pass", applyFunctorOnCCs has just started the
\* functor f on every component
StartWith(at, p, shp, f, pre) ==
  /\ shape = shp
  /\ functor = f
  /\ pc = at
  /\ param = p
  /\ score = EntryScore
  /\ prior = [v \in {} |-> 0]
  /\ groups = pre
  /\ search = [alpha |-> << >>, beta |-> << >>, gamma |-> << >>]
  /\ bestParams = <<0, 0, 0>>
  /\ bestValue = StartValue
  /\ combo = 0
  /\ saved = [update |-> FALSE, annotate |-> FALSE]
  /\ annIdx = 1
  /\ fpc = IF at = "final_pass" THEN [c \in CCs |-> "ready"] ELSE NoFunctor
  /\ acquired = [c \in CCs |-> FALSE]
  /\ posteriorVars = [c \in CCs |-> << >>]
  /\ factors = [c \in CCs |-> << >>]
  /\ thrown = [c \in CCs |-> "none"]
  /\ scheduler = [c \in CCs |-> NoScheduler]
  /\ entry = [param |-> param, score |-> score, groups |-> groups]
  /\ evalMax = [value |-> StartValue, tuple |-> << >>]
  /\ evalCount = [t \in {} |-> 0]
  /\ passes = [grid |-> 0, final |-> IF at = "final_pass" THEN 1 ELSE 0,
               scored |-> 0]
  /\ outcome = [c \in CCs |-> "none"]
  /\ reads = [c \in CCs |-> {}]
  /\ writes = [c \in CCs |-> {}]
  /\ toGraph = [c \in CCs |-> 0]
  /\ warned = [c \in CCs |-> FALSE]
  /\ pmfs = [c \in CCs |-> << >>]
  /\ groupSrc = << >>

\* The same on a protein identification without group records
Start(at, p, shp, f) == StartWith(at, p, shp, f, << >>)

Init ==
  \E upd \in BOOLEAN, ann \in BOOLEAN, udp \in BOOLEAN,
     cfg \in Configs :
    Start("entry", ParamOf(upd, ann, udp, cfg, DefaultLBP), "regular", "Graph")

orchVars == <<search, bestParams, bestValue, combo, saved, annIdx>>
functorVars == <<fpc, acquired, posteriorVars, factors, thrown, scheduler,
                 outcome, reads, writes, toGraph, warned, pmfs>>
inputs == <<shape, functor, entry>>
gridHistory == <<evalMax, evalCount>>

\* IDBoostGraph::applyFunctorOnCCs starts the functor on every component.
StartPass ==
  /\ fpc' = [c \in CCs |-> "ready"]
  /\ acquired' = [c \in CCs |-> FALSE]
  /\ posteriorVars' = [c \in CCs |-> << >>]
  /\ factors' = [c \in CCs |-> << >>]
  /\ thrown' = [c \in CCs |-> "none"]
  /\ scheduler' = [c \in CCs |-> NoScheduler]
  /\ pmfs' = [c \in CCs |-> << >>]
  /\ outcome' = [c \in CCs |-> "none"]
  /\ reads' = [c \in CCs |-> {}]
  /\ writes' = [c \in CCs |-> {}]
  /\ toGraph' = [c \in CCs |-> 0]
  /\ warned' = [c \in CCs |-> FALSE]

\* Mutant: applyFunctorOnCCs returns as soon as one functor has returned.
PassOverAtFirstReturn == \E c \in CCs : fpc[c] = "done"

\* applyFunctorOnCCs returns when the functor has returned on every component.
PassOver == \A c \in CCs : fpc[c] = "done"

\* Lines 750-784: score type, "Prior" meta values, graph construction
Prepare ==
  /\ pc = "entry"
  /\ prior' = IF param.user_defined_priors
              THEN [v \in Proteins |-> score[v]]
              ELSE prior
  /\ pc' = "axes"
  /\ UNCHANGED <<param, score, groups, orchVars, functorVars, inputs,
                 gridHistory, passes, groupSrc>>

\* Lines 801-834: the three axes and bestParams{{0, 0, 0}}
BuildGrid ==
  /\ pc = "axes"
  /\ search' = [alpha |-> AlphaSearch(param.alpha),
                beta |-> BetaSearch(param.beta),
                gamma |-> GammaSearch(param.gamma)]
  /\ bestParams' = <<0, 0, 0>>
  /\ pc' = "save"
  /\ UNCHANGED <<param, score, prior, groups, bestValue, combo, saved, annIdx,
                 functorVars, inputs, gridHistory, passes, groupSrc>>

\* Mutant: the two options are saved but left as configured.
DisabledNot(p) == p

\* Lines 840, 843: both options are switched off for the grid search
Disabled(p) ==
  [p EXCEPT !.update_PSM_probabilities = FALSE,
            !.annotate_group_probabilities = FALSE]

\* Lines 836-843
SaveAndDisable ==
  /\ pc = "save"
  /\ saved' = [update |-> param.update_PSM_probabilities,
               annotate |-> param.annotate_group_probabilities]
  /\ param' = Disabled(param)
  /\ pc' = "branch"
  /\ UNCHANGED <<score, prior, groups, search, bestParams, bestValue, combo,
                 annIdx, functorVars, inputs, gridHistory, passes, groupSrc>>

\* Mutant: the grid search also runs for a single combination.
GridSearchNeededAlways(s) == NrCombos(s) >= 1

\* Line 848
GridSearchNeeded(s) == NrCombos(s) > 1

\* Lines 848-851: gs.evaluate(GridSearchEvaluator(...), -1.0, bestParams)
StartGridSearch ==
  /\ pc = "branch"
  /\ GridSearchNeeded(search)
  /\ combo' = 0
  /\ bestValue' = StartValue
  /\ pc' = "gs_eval"
  /\ UNCHANGED <<param, score, prior, groups, search, bestParams, saved,
                 annIdx, functorVars, inputs, gridHistory, passes, groupSrc>>

\* Lines 853-856
SkipGridSearch ==
  /\ pc = "branch"
  /\ ~GridSearchNeeded(search)
  /\ pc' = "best"
  /\ UNCHANGED <<param, score, prior, groups, orchVars, functorVars, inputs,
                 gridHistory, passes, groupSrc>>

\* Lines 422-428: GridSearchEvaluator sets the three model parameters and
\* starts the inference pass
GsEvaluate ==
  /\ pc = "gs_eval"
  /\ LET t == TupleAt(search, ComboIndex(search, combo))
     IN  param' = [param EXCEPT !.gamma = t[3], !.alpha = t[1], !.beta = t[2]]
  /\ StartPass
  /\ passes' = [passes EXCEPT !.grid = @ + 1]
  /\ pc' = "gs_pass"
  /\ UNCHANGED <<score, prior, groups, orchVars, inputs, gridHistory, groupSrc>>

\* Lines 429-430 and GridSearch::evaluate: the scoring callback returns s,
\* the tuple replaces the best one when s is strictly higher
GsScore ==
  /\ pc = "gs_pass"
  /\ PassOver
  /\ \E s \in ScoreValues :
       LET idx == ComboIndex(search, combo)
           t == TupleAt(search, idx)
       IN  /\ evalMax' = IF s > evalMax.value
                         THEN [value |-> s, tuple |-> t] ELSE evalMax
           /\ evalCount' = [u \in DOMAIN evalCount \cup {t} |->
                              IF u = t
                              THEN (IF t \in DOMAIN evalCount
                                    THEN evalCount[t] + 1 ELSE 1)
                              ELSE evalCount[u]]
           /\ IF GridSearchBetter(s, bestValue)
              THEN bestValue' = s /\ bestParams' = idx
              ELSE UNCHANGED <<bestValue, bestParams>>
  /\ combo' = combo + 1
  /\ passes' = [passes EXCEPT !.scored = @ + 1]
  /\ pc' = IF combo + 1 < NrCombos(search) THEN "gs_eval" ELSE "best"
  /\ UNCHANGED <<param, score, prior, groups, search, saved, annIdx,
                 functorVars, inputs, groupSrc>>

\* Mutant: the alpha axis is indexed with the gamma index.
BestTupleSwapped(s, bp) ==
  <<s.alpha[bp[3] + 1], s.beta[bp[2] + 1], s.gamma[bp[3] + 1]>>

\* Lines 858-860: (bestAlpha, bestBeta, bestGamma)
BestTuple(s, bp) ==
  <<s.alpha[bp[1] + 1], s.beta[bp[2] + 1], s.gamma[bp[3] + 1]>>

\* Mutant: the two options stay switched off for the final pass.
RestoredNot(p, sv) == p

\* Lines 867-868
Restored(p, sv) ==
  [p EXCEPT !.update_PSM_probabilities = sv.update,
            !.annotate_group_probabilities = sv.annotate]

\* Lines 858-869: best parameters, the caller's options, the final pass
SetBest ==
  /\ pc = "best"
  /\ LET t == BestTuple(search, bestParams)
     IN  param' = Restored([param EXCEPT !.gamma = t[3], !.alpha = t[1],
                                         !.beta = t[2]], saved)
  /\ StartPass
  /\ passes' = [passes EXCEPT !.final = @ + 1]
  /\ pc' = "final_pass"
  /\ UNCHANGED <<score, prior, groups, orchVars, inputs, gridHistory, groupSrc>>

\* Lines 869-873: the final pass has returned, the annotation starts
FinalPassDone ==
  /\ pc = "final_pass"
  /\ PassOver
  /\ annIdx' = 1
  /\ pc' = "annotate"
  /\ UNCHANGED <<param, score, prior, groups, search, bestParams, bestValue,
                 combo, saved, functorVars, inputs, gridHistory, passes,
                 groupSrc>>

\* Mutant: the annotator empties the list before the first component.
AnnotateOntoEmptiedList ==
  /\ pc = "annotate"
  /\ annIdx <= NumCCs
  /\ groups' = (IF annIdx = 1 THEN << >> ELSE groups)
                  \o GroupRecordsOf(annIdx, score)
  /\ groupSrc' = groupSrc \o
       [k \in 1..Len(GroupVerticesOf(annIdx)) |->
          Fg(annIdx, GroupVerticesOf(annIdx)[k])]
  /\ annIdx' = annIdx + 1
  /\ UNCHANGED <<pc, param, score, prior, search, bestParams, bestValue,
                 combo, saved, functorVars, inputs, gridHistory, passes>>

\* Mutant: the records of a component are put in front of the list.
AnnotatePrepending ==
  /\ pc = "annotate"
  /\ annIdx <= NumCCs
  /\ groups' = GroupRecordsOf(annIdx, score) \o groups
  /\ groupSrc' =
       [k \in 1..Len(GroupVerticesOf(annIdx)) |->
          Fg(annIdx, GroupVerticesOf(annIdx)[k])] \o groupSrc
  /\ annIdx' = annIdx + 1
  /\ UNCHANGED <<pc, param, score, prior, search, bestParams, bestValue,
                 combo, saved, functorVars, inputs, gridHistory, passes>>

\* Line 873 with lines 60-90: applyFunctorOnCCsST calls the annotator on the
\* components one after another
Annotate ==
  /\ pc = "annotate"
  /\ annIdx <= NumCCs
  /\ groups' = groups \o GroupRecordsOf(annIdx, score)
  /\ groupSrc' = groupSrc \o
       [k \in 1..Len(GroupVerticesOf(annIdx)) |->
          Fg(annIdx, GroupVerticesOf(annIdx)[k])]
  /\ annIdx' = annIdx + 1
  /\ UNCHANGED <<pc, param, score, prior, search, bestParams, bestValue,
                 combo, saved, functorVars, inputs, gridHistory, passes>>

\* Lines 873-916: inferPosteriorProbabilities returns
Return ==
  /\ pc = "annotate"
  /\ annIdx > NumCCs
  /\ pc' = "done"
  /\ UNCHANGED <<param, score, prior, groups, orchVars, functorVars, inputs,
                 gridHistory, passes, groupSrc>>


---------------------------------------------------------------------------
(* The steps of GraphInferenceFunctor::operator() on component c.  The     *)
(* invocations of one pass run concurrently, so their steps interleave.    *)

InPass == pc \in {"gs_pass", "final_pass"}

besidesPc == <<param, prior, groups, orchVars, inputs, gridHistory, passes,
               groupSrc>>
notFunctor == <<pc, besidesPc>>

\* Mutant: the skip of a one-vertex component resets a protein to the prior.
FunctorSkipSetsPrior(c) ==
  /\ InPass
  /\ fpc[c] = "ready"
  /\ ~(NumVertices(c) >= 2)
  /\ fpc' = [fpc EXCEPT ![c] = "done"]
  /\ outcome' = [outcome EXCEPT ![c] = "skipped"]
  /\ score' = [v \in AllVertices |->
                 IF v \in Vertices(c) /\ Kind(v) = ProteinKind
                 THEN param.gamma ELSE score[v]]
  /\ UNCHANGED <<notFunctor, acquired, posteriorVars, factors, thrown,
                 scheduler, reads, writes, toGraph, warned, pmfs>>

\* Lines 109, 258-261: a component of fewer than 2 vertices is skipped
FunctorSkip(c) ==
  /\ InPass
  /\ fpc[c] = "ready"
  /\ ~(NumVertices(c) >= 2)
  /\ fpc' = [fpc EXCEPT ![c] = "done"]
  /\ outcome' = [outcome EXCEPT ![c] = "skipped"]
  /\ UNCHANGED <<notFunctor, score, acquired, posteriorVars, factors, thrown,
                 scheduler, reads, writes, toGraph, warned, pmfs>>

\* What reading in[0] may yield when in is empty: a descriptor of fg or a
\* value that is none (NumVertices(c) + 1)
InZeroValues(c) ==
  IF ReadsEmptyIn(c) THEN 1..(NumVertices(c) + 1) ELSE {1}

\* Lines 111-205: the parameters are read and the vertex loop inserts the
\* factors; creating a factor may raise a runtime error.  Reading in[0] of an
\* empty in is undefined: the read yields some value and the loop goes on, or
\* the process dies.
FunctorBuild(c) ==
  /\ InPass
  /\ fpc[c] = "ready"
  /\ NumVertices(c) >= 2
  /\ acquired' = [acquired EXCEPT ![c] = FALSE]
  /\ reads' = [reads EXCEPT ![c] = ReadSet(c, param)]
  /\ \/ /\ posteriorVars' = [posteriorVars EXCEPT ![c] = PosteriorVarsOf(c, param)]
        /\ \E g \in InZeroValues(c) :
             factors' = [factors EXCEPT ![c] =
                           FactorsUpTo(c, NumVertices(c), param, score, prior, g)]
        /\ fpc' = [fpc EXCEPT ![c] = "built"]
        /\ UNCHANGED <<thrown, pc>>
     \/ /\ thrown' = [thrown EXCEPT ![c] = "runtime_error"]
        /\ fpc' = [fpc EXCEPT ![c] = "catch"]
        /\ UNCHANGED <<posteriorVars, factors, pc>>
     \/ /\ ReadsEmptyIn(c)
        /\ pc' = "aborted"
        /\ UNCHANGED <<posteriorVars, factors, thrown, fpc>>
  /\ UNCHANGED <<besidesPc, score, outcome, writes, toGraph, warned, scheduler,
                 pmfs>>

\* Iterations loopy belief propagation may need until every message has
\* converged
MaxIterations == 2

\* How estimate_posteriors ends when the messages need n iterations to
\* converge and the scheduler allows max of them
EngineEnd(n, max) == IF n > max THEN "iteration_cap" ELSE "converged"

\* Lines 212-217: PriorityScheduler(dampening_lambda, convergence_threshold,
\* max_nr_iterations)
PriorityScheduler(p, e) ==
  [type |-> "priority", lambda |-> p.dampening_lambda,
   max_nr_iterations |-> p.max_nr_iterations, ended |-> e]

\* Lines 207-221: to_graph(), the scheduler and estimate_posteriors, which
\* returns at convergence or at the iteration cap, or raises a runtime error
FunctorInfer(c) ==
  /\ InPass
  /\ fpc[c] = "built"
  /\ toGraph' = [toGraph EXCEPT ![c] = @ + 1]
  /\ acquired' = [acquired EXCEPT ![c] = functor # "Extended"]
  /\ \/ /\ \E n \in 1..MaxIterations :
             scheduler' = [scheduler EXCEPT ![c] =
               PriorityScheduler(param, EngineEnd(n, param.max_nr_iterations))]
        /\ fpc' = [fpc EXCEPT ![c] = "write"]
        /\ UNCHANGED thrown
     \/ /\ scheduler' = [scheduler EXCEPT ![c] =
                           PriorityScheduler(param, "runtime_error")]
        /\ thrown' = [thrown EXCEPT ![c] = "runtime_error"]
        /\ fpc' = [fpc EXCEPT ![c] = "catch"]
  /\ UNCHANGED <<notFunctor, score, posteriorVars, factors, outcome, reads,
                 writes, warned, pmfs>>

\* Lines 223-237: one posterior factor per requested descriptor, with a
\* marginal out of S, is written back through the visitor
FunctorWriteBackFrom(c, S) ==
  /\ InPass
  /\ fpc[c] = "write"
  /\ \E pmfOf \in [Range(posteriorVars[c]) -> S] :
       /\ score' = WriteBack(c, score, posteriorVars[c], pmfOf)
       /\ pmfs' = [pmfs EXCEPT ![c] = pmfOf]
  /\ writes' = [writes EXCEPT ![c] =
                  {Fg(c, i) : i \in Range(posteriorVars[c])}]
  /\ fpc' = [fpc EXCEPT ![c] = "done"]
  /\ outcome' = [outcome EXCEPT ![c] = "ok"]
  /\ UNCHANGED <<notFunctor, acquired, posteriorVars, factors, thrown,
                 scheduler, reads, toGraph, warned>>

\* Mutant: a run that ended at the iteration cap is treated as a failure and
\* nothing is written.
FunctorWriteBackUnlessCapped(c) ==
  IF scheduler[c].ended = "iteration_cap"
  THEN /\ InPass
       /\ fpc[c] = "write"
       /\ fpc' = [fpc EXCEPT ![c] = "done"]
       /\ outcome' = [outcome EXCEPT ![c] = "failed"]
       /\ warned' = [warned EXCEPT ![c] = TRUE]
       /\ UNCHANGED <<notFunctor, score, acquired, posteriorVars, factors,
                      thrown, scheduler, reads, writes, toGraph, pmfs>>
  ELSE FunctorWriteBackFrom(c, PMFs)

\* Lines 223-237 with the marginals of Boolean variables
FunctorWriteBack(c) == FunctorWriteBackFrom(c, PMFs)

\* Mutant: the handler sets the protein scores of the component to the prior
\* gamma instead of leaving them.
FunctorCatchSetsPriors(c) ==
  /\ InPass
  /\ fpc[c] = "catch"
  /\ toGraph' = [toGraph EXCEPT ![c] = IF acquired[c] THEN @ ELSE @ + 1]
  /\ warned' = [warned EXCEPT ![c] = TRUE]
  /\ thrown' = [thrown EXCEPT ![c] = "none"]
  /\ fpc' = [fpc EXCEPT ![c] = "done"]
  /\ outcome' = [outcome EXCEPT ![c] = "failed"]
  /\ score' = [v \in AllVertices |->
                 IF v \in Vertices(c) /\ Kind(v) = ProteinKind
                 THEN param.gamma ELSE score[v]]
  /\ UNCHANGED <<notFunctor, acquired, posteriorVars, factors, reads, writes,
                 scheduler, pmfs>>

\* Lines 253 and 396: does the handler call bigb.to_graph().  The handler of
\* GraphInferenceFunctor calls it unless graph_mp_ownership_acquired, the one
\* of ExtendedGraphInferenceFunctor calls it always.
HandlerBuilds(c) == functor = "Extended" \/ ~acquired[c]

\* Lines 241-256 (388-399): the handler builds the graph, warns and returns;
\* an exception it does not catch leaves the functor
FunctorCatch(c) ==
  /\ InPass
  /\ fpc[c] = "catch"
  /\ IF Catches(thrown[c])
     THEN /\ toGraph' = [toGraph EXCEPT ![c] =
                           IF HandlerBuilds(c) THEN @ + 1 ELSE @]
          /\ warned' = [warned EXCEPT ![c] = TRUE]
          /\ thrown' = [thrown EXCEPT ![c] = "none"]
          /\ fpc' = [fpc EXCEPT ![c] = "done"]
          /\ outcome' = [outcome EXCEPT ![c] = "failed"]
          /\ pc' = pc
     ELSE /\ pc' = "aborted"
          /\ UNCHANGED <<toGraph, warned, thrown, fpc, outcome>>
  /\ UNCHANGED <<besidesPc, score, acquired, posteriorVars, factors, reads,
                 writes, scheduler, pmfs>>

Next ==
  \/ Prepare
  \/ BuildGrid
  \/ SaveAndDisable
  \/ StartGridSearch
  \/ SkipGridSearch
  \/ GsEvaluate
  \/ GsScore
  \/ SetBest
  \/ FinalPassDone
  \/ Annotate
  \/ Return
  \/ \E c \in CCs : FunctorSkip(c)
  \/ \E c \in CCs : FunctorBuild(c)
  \/ \E c \in CCs : FunctorInfer(c)
  \/ \E c \in CCs : FunctorWriteBack(c)
  \/ \E c \in CCs : FunctorCatch(c)

Spec == Init /\ [][Next]_vars


---------------------------------------------------------------------------
(* Axis construction alone: BuildGrid applied to every configured value   *)
(* the parameter ranges [-1, 1] admit (lines 485-503).                     *)

AxisInputs == {-1000, -500, -1, 0, 1, 500, 1000}

InitAxes ==
  \E a \in AxisInputs, b \in AxisInputs, g \in AxisInputs :
    Start("axes", ParamOf(TRUE, TRUE, FALSE, <<a, b, g>>, DefaultLBP),
          "regular", "Graph")

NextAxes == BuildGrid

SpecAxes == InitAxes /\ [][NextAxes]_vars

---------------------------------------------------------------------------
(* The call with other settings of the loopy_belief_propagation section.  *)
(* A caller may ask for any of LBPCandidates; the call is made with those  *)
(* the declared restrictions admit.                                        *)

LBPCandidates ==
  {DefaultLBP,
   [scheduling_type |-> "fifo", dampening_lambda |-> 0,
    max_nr_iterations |-> 1],
   [scheduling_type |-> "random_spanning_tree", dampening_lambda |-> 1000,
    max_nr_iterations |-> DefaultMaxNrIterations],
   [scheduling_type |-> "lifo", dampening_lambda |-> 500,
    max_nr_iterations |-> 1]}

InitLBP ==
  \E cfg \in Configs, lbp \in LBPCandidates :
    /\ Admitted(ParamOf(TRUE, TRUE, FALSE, cfg, lbp))
    /\ Start("entry", ParamOf(TRUE, TRUE, FALSE, cfg, lbp), "regular", "Graph")

SpecLBP == InitLBP /\ [][Next]_vars

---------------------------------------------------------------------------
(* The call on a graph with several protein groups *)

InitGroups ==
  \E ann \in BOOLEAN, cfg \in Configs :
    Start("entry", ParamOf(TRUE, ann, FALSE, cfg, DefaultLBP),
          "two_groups", "Graph")

SpecGroups == InitGroups /\ [][Next]_vars

---------------------------------------------------------------------------
(* The call on a graph in which a PSM has no neighbour of lower kind *)

InitShape ==
  \E cfg \in Configs :
    Start("entry", ParamOf(TRUE, TRUE, FALSE, cfg, DefaultLBP),
          "psm_pair", "Graph")

SpecShape == InitShape /\ [][Next]_vars

---------------------------------------------------------------------------
(* One pass of either functor class over the components, the engine        *)
(* returning marginals of any support: the final pass of line 869          *)
(* (GraphInferenceFunctor) and the one of line 909                         *)
(* (ExtendedGraphInferenceFunctor).                                        *)

FunctorClasses == {"Graph", "Extended"}

InitFunctors ==
  \E f \in FunctorClasses, ann \in BOOLEAN :
    Start("final_pass", ParamOf(FALSE, ann, FALSE, <<900, 10, 400>>, DefaultLBP),
          "regular", f)

NextFunctors ==
  \/ \E c \in CCs : FunctorSkip(c)
  \/ \E c \in CCs : FunctorBuild(c)
  \/ \E c \in CCs : FunctorInfer(c)
  \/ \E c \in CCs : FunctorWriteBackFrom(c, SupportPMFs)
  \/ \E c \in CCs : FunctorCatch(c)

SpecFunctors == InitFunctors /\ [][NextFunctors]_vars

---------------------------------------------------------------------------
(* The final pass of GraphInferenceFunctor on each graph whose PSMs all     *)
(* have a neighbour of lower kind, with every setting of the two options   *)
(* that decide which posteriors are requested.                             *)

DispatchShapes == {"regular", "two_groups", "other_kind"}

InitDispatch ==
  \E shp \in DispatchShapes, upd \in BOOLEAN, ann \in BOOLEAN :
    Start("final_pass", ParamOf(upd, ann, FALSE, <<900, 10, 400>>, DefaultLBP),
          shp, "Graph")

NextDispatch ==
  \/ \E c \in CCs : FunctorSkip(c)
  \/ \E c \in CCs : FunctorBuild(c)
  \/ \E c \in CCs : FunctorInfer(c)
  \/ \E c \in CCs : FunctorWriteBack(c)
  \/ \E c \in CCs : FunctorCatch(c)

SpecDispatch == InitDispatch /\ [][NextDispatch]_vars

---------------------------------------------------------------------------
(* The call on a protein identification that already holds group records:  *)
(* none, those an earlier call on the same data appended, or one of        *)
(* another origin.                                                         *)

GroupRecord(pr, acc) == [probability |-> pr, accessions |-> acc]

PresentGroups ==
  {<< >>,
   <<GroupRecord(700, <<1>>), GroupRecord(700, <<3>>), GroupRecord(1000, <<5>>)>>,
   <<GroupRecord(500, <<3, 5>>)>>}

InitAppend ==
  \E ann \in BOOLEAN, cfg \in Configs, pre \in PresentGroups :
    StartWith("entry", ParamOf(FALSE, ann, FALSE, cfg, DefaultLBP),
              "two_groups", "Graph", pre)

SpecAppend == InitAppend /\ [][Next]_vars

---------------------------------------------------------------------------
(* Claims *)

ModelTuple(p) == <<p.alpha, p.beta, p.gamma>>

InUnit(x) == 0 <= x /\ x <= 1000

\* C1: in every grid-search pass update_PSM_probabilities and
\* annotate_group_probabilities are both false whatever the caller
\* configured, so only protein posteriors are requested; in the final pass
\* both have the values they had at entry.
C1_SideEffectsOffDuringSearch ==
  /\ pc \in {"gs_eval", "gs_pass"} =>
       /\ ~param.update_PSM_probabilities
       /\ ~param.annotate_group_probabilities
       /\ \A c \in CCs : \A i \in Range(posteriorVars[c]) :
            Kind(VertexSeq(c)[i]) = ProteinKind
  /\ pc = "final_pass" =>
       /\ param.update_PSM_probabilities = entry.param.update_PSM_probabilities
       /\ param.annotate_group_probabilities =
            entry.param.annotate_group_probabilities

\* C1 witness: after five grid passes the final pass of a caller who asked
\* for both options is about to write the PSM and the group of component 2.
C1_Witness ==
  /\ pc = "final_pass"
  /\ passes.grid = 5
  /\ entry.param.update_PSM_probabilities
  /\ entry.param.annotate_group_probabilities
  /\ fpc[2] = "write"
  /\ posteriorVars[2] = <<1, 2, 3, 5>>

\* C2: if update_PSM_probabilities is false at entry, every PSM score equals
\* its score at entry, in every state up to and including the return.
C2_PSMScoresUnchanged ==
  ~entry.param.update_PSM_probabilities =>
    \A v \in PSMs : score[v] = entry.score[v]

\* C2 witness: the call has returned after a grid search, the final pass
\* succeeded on component 1 and failed on component 2.
C2_Witness ==
  /\ pc = "done"
  /\ ~entry.param.update_PSM_probabilities
  /\ passes.grid = 5
  /\ outcome[1] = "ok"
  /\ outcome[2] = "failed"

\* C3: with more than one combination every tuple of the grid is evaluated
\* exactly once, and the final pass runs with the tuple for which the scoring
\* callback returned the highest value.
C3_FinalPassUsesBestTuple ==
  /\ \A t \in DOMAIN evalCount : evalCount[t] = 1 /\ t \in GridTuples(search)
  /\ (pc \in {"final_pass", "annotate", "done"} /\ NrCombos(search) > 1) =>
       /\ DOMAIN evalCount = GridTuples(search)
       /\ Cardinality(GridTuples(search)) = NrCombos(search)
       /\ ModelTuple(param) = evalMax.tuple

\* C3 witness: only the last tuple (alpha = 0.9) scored highest and the final
\* pass runs with it.
C3_Witness ==
  /\ pc = "final_pass"
  /\ evalMax.value = MaxScore
  /\ evalMax.tuple = <<900, 1, 500>>
  /\ param.alpha = 900
  /\ fpc[1] = "built"

\* C4: an invocation that ends in the handler modifies no score of its
\* component: scores of a component change only in the write-back step that
\* follows a returned estimate_posteriors; the handler warns and returns.
C4_FailedInvocationWritesNothing ==
  [][\A c \in CCs :
       /\ (\E v \in Vertices(c) : score'[v] # score[v]) =>
            fpc[c] = "write" /\ fpc'[c] = "done" /\ outcome'[c] = "ok"
       /\ (fpc[c] = "catch" /\ fpc'[c] # "catch") =>
            fpc'[c] = "done" /\ warned'[c] /\ outcome'[c] = "failed" /\ pc' = pc
       /\ fpc[c] = "catch" => pc' # "aborted"]_vars

\* C4 witness: inference failed on component 2 after its graph was built,
\* the warning is logged and the functor has returned.
C4_Witness ==
  /\ pc = "final_pass"
  /\ fpc[2] = "done"
  /\ outcome[2] = "failed"
  /\ acquired[2]
  /\ warned[2]
  /\ \A v \in Vertices(2) : score[v] = entry.score[v]

NrGroupVertices ==
  Cardinality({v \in ProteinGroups : NumVertices(CCOf(v)) >= 2})

\* C5: no exception leaves the functor; when a pass is over every component
\* of at least 2 vertices was processed and each one that did not fail has
\* its requested posteriors written; at the return all passes and the group
\* annotation have been performed.
C5_FailureNeverAborts ==
  /\ pc # "aborted"
  /\ (InPass /\ PassOver) =>
       \A c \in CCs :
         /\ NumVertices(c) >= 2 => outcome[c] \in {"ok", "failed"}
         /\ outcome[c] = "ok" =>
              writes[c] = {VertexSeq(c)[i] : i \in Range(PosteriorVarsOf(c, param))}
  /\ pc = "done" =>
       /\ passes.final = 1
       /\ passes.grid = (IF NrCombos(search) > 1 THEN NrCombos(search) ELSE 0)
       /\ annIdx = NumCCs + 1
       /\ Len(groups) = NrGroupVertices

\* C5 witness: the final pass failed on component 1, component 2 got its
\* posteriors and the call returned with the group annotated.
C5_Witness ==
  /\ pc = "done"
  /\ passes.grid = 5
  /\ outcome[1] = "failed"
  /\ outcome[2] = "ok"
  /\ writes[2] # {}
  /\ Len(groups) = 1


C7_InvocationsAreIndependent ==
  /\ [](\A c \in CCs :
          /\ reads[c] \cup writes[c] \subseteq Vertices(c)
          /\ \A d \in CCs \ {c} :
               writes[c] \cap (reads[d] \cup writes[d]) = {})
  /\ [][\A v \in AllVertices :
          score'[v] # score[v] =>
            /\ fpc[CCOf(v)] = "write"
            /\ fpc'[CCOf(v)] = "done"
            /\ v \in writes'[CCOf(v)]]_vars

\* C7 witness: component 1 has written its posteriors while component 2 has
\* read its PSM score and not yet written.
C7_Witness ==
  /\ pc = "final_pass"
  /\ writes[1] = {1, 2}
  /\ reads[2] = {7}
  /\ fpc[2] = "write"

\* C8: the annotator emits exactly one record per protein-group vertex of a
\* component with at least 2 vertices, and the accessions of a record are
\* exactly those of the protein vertices adjacent to that group vertex.
C8_GroupsMatchAdjacentProteins ==
  /\ Len(groups) = Len(groupSrc)
  /\ \A k \in 1..Len(groups) :
       LET g == groupSrc[k]
           prots == {n \in Range(Adj(g)) : Kind(n) = ProteinKind}
       IN  /\ Kind(g) = ProteinGroupKind
           /\ NumVertices(CCOf(g)) >= 2
           /\ Range(groups[k].accessions) = {Accession(n) : n \in prots}
           /\ Len(groups[k].accessions) = Cardinality(prots)
           /\ \A j \in 1..Len(groups) : groupSrc[j] = g => j = k
  /\ pc = "done" =>
       Range(groupSrc) = {v \in ProteinGroups : NumVertices(CCOf(v)) >= 2}

\* C8 witness: the record of group vertex 5 lists the proteins 3 and 4 and
\* not its peptide-group neighbour 6.
C8_Witness ==
  /\ pc = "done"
  /\ Len(groups) = 1
  /\ groupSrc[1] = 5
  /\ groups[1].accessions = <<3, 4>>

GridBuilt == pc \notin {"entry", "axes"}

\* C9: with exactly one combination the scoring callback is never invoked
\* and one inference pass, the final one, is run; with k > 1 combinations k
\* grid passes, each followed by one scoring call, precede the single final
\* pass.
C9_PassesAndScoringCalls ==
  /\ passes.final <= 1
  /\ passes.final = 1 <=> pc \in {"final_pass", "annotate", "done"}
  /\ (GridBuilt /\ NrCombos(search) = 1) =>
       passes.grid = 0 /\ passes.scored = 0
  /\ (GridBuilt /\ NrCombos(search) > 1) =>
       /\ pc = "gs_pass" => passes.scored = passes.grid - 1
       /\ pc # "gs_pass" => passes.scored = passes.grid
       /\ passes.grid <= NrCombos(search)
       /\ passes.final = 1 => passes.grid = NrCombos(search)

\* C9 witness: a 1x1x1 grid, the call returned after the final pass alone.
C9_Witness ==
  /\ pc = "done"
  /\ NrCombos(search) = 1
  /\ passes = [grid |-> 0, final |-> 1, scored |-> 0]

\* C10: each axis is built from its own configured value: a negative value
\* gives the default sweep, a value in [0,1] the singleton of that value.
C10_AxesFromConfiguredValues ==
  pc = "save" =>
    /\ search.alpha = IF entry.param.alpha < 0
                      THEN <<100, 300, 500, 700, 900>>
                      ELSE <<entry.param.alpha>>
    /\ search.beta = IF entry.param.beta < 0 THEN <<1>> ELSE <<entry.param.beta>>
    /\ search.gamma = IF entry.param.gamma < 0 THEN <<500>>
                      ELSE <<entry.param.gamma>>

\* C10 witness: alpha = -0.5 gives the sweep, beta = 0 and gamma = 1 give
\* singletons.
C10_Witness ==
  /\ pc = "save"
  /\ entry.param.alpha = -500
  /\ entry.param.beta = 0
  /\ entry.param.gamma = 1000
  /\ search = [alpha |-> <<100, 300, 500, 700, 900>>, beta |-> <<0>>,
               gamma |-> <<1000>>]

\* The grid the next call of inferPosteriorProbabilities on this object
\* builds from the parameters p (lines 801-832)
GridOfCall(p) ==
  [alpha |-> AlphaSearch(p.alpha), beta |-> BetaSearch(p.beta),
   gamma |-> GammaSearch(p.gamma)]

\* C11: when inferPosteriorProbabilities returns, the parameter set equals
\* the one at entry, and a second call on the same object builds the grid the
\* first call built.
C11_ParametersRestoredAtReturn ==
  pc = "done" =>
    /\ param = entry.param
    /\ GridOfCall(param) = search

\* C12: a component with fewer than 2 vertices is skipped by the inference
\* functor and by the annotator: no factor is created, no scheduler is
\* constructed and no inference is run on it, no group record comes from it,
\* and each of its vertices keeps the score it had at entry.
C12_SmallComponentsSkipped ==
  \A c \in CCs : NumVertices(c) < 2 =>
    /\ fpc[c] \in {"idle", "ready", "done"}
    /\ fpc[c] = "done" => outcome[c] = "skipped"
    /\ outcome[c] \in {"none", "skipped"}
    /\ factors[c] = << >>
    /\ posteriorVars[c] = << >>
    /\ scheduler[c] = NoScheduler
    /\ toGraph[c] = 0
    /\ ~warned[c]
    /\ reads[c] = {} /\ writes[c] = {}
    /\ \A v \in Vertices(c) :
         /\ score[v] = entry.score[v]
         /\ v \notin Range(groupSrc)

\* C12 witness: the call returned after a grid search; the isolated protein
\* of component 3 was skipped in the final pass and still has its entry score
\* 2.0, while component 2 got its posteriors and its group record.
C12_Witness ==
  /\ pc = "done"
  /\ passes.grid = 5
  /\ NumVertices(3) = 1
  /\ outcome[3] = "skipped"
  /\ score[8] = 2000
  /\ outcome[2] = "ok"
  /\ Len(groups) = 1

ProteinFactorsOf(c) ==
  {factors[c][k] : k \in {j \in 1..Len(factors[c]) :
                            factors[c][j].type = "Protein"}}

\* C13: with user_defined_priors every protein hit carries a "Prior" equal to
\* its score at entry from before the first pass on, and in every pass each
\* protein factor is built from that value, not from a score an earlier pass
\* wrote and not from gamma; without it no "Prior" is written and each
\* protein factor is built from gamma.
C13_ProteinFactorsUseEntryPriors ==
  /\ entry.param.user_defined_priors =>
       /\ (pc # "entry") =>
            /\ DOMAIN prior = Proteins
            /\ \A v \in Proteins : prior[v] = entry.score[v]
       /\ (pc = "entry") => passes.grid = 0 /\ passes.final = 0
       /\ \A c \in CCs : \A f \in ProteinFactorsOf(c) :
            f.prob = entry.score[Fg(c, f.var)]
  /\ ~entry.param.user_defined_priors =>
       /\ DOMAIN prior = {}
       /\ \A c \in CCs : \A f \in ProteinFactorsOf(c) : f.prob = param.gamma
  /\ \A c \in CCs : fpc[c] \in {"built", "write"} =>
       Cardinality(ProteinFactorsOf(c)) =
         Cardinality({v \in Vertices(c) : Kind(v) = ProteinKind})

\* C13 witness: user priors are on, five grid passes have overwritten the
\* score of protein 3, and the final pass has built its protein factor from
\* the entry score 0.25.
C13_Witness ==
  /\ pc = "final_pass"
  /\ passes.grid = 5
  /\ entry.param.user_defined_priors
  /\ fpc[2] = "built"
  /\ score[3] = 1000
  /\ entry.score[3] = 250
  /\ factors[2][1] = Factor("Protein", 1, << >>, 0, 250)

\* C14: the scheduler a functor constructs for its component is the one
\* loopy_belief_propagation:scheduling_type selects.
C14_SchedulerIsTheConfiguredOne ==
  \A c \in CCs :
    scheduler[c] # NoScheduler => scheduler[c].type = param.scheduling_type

\* C15: no functor of any pass constructs its scheduler with a
\* dampening_lambda outside [0,1), in particular not with lambda = 1: such a
\* setting is refused before inferPosteriorProbabilities runs.
C15_LambdaOneNeverRuns ==
  \A c \in CCs :
    scheduler[c] # NoScheduler =>
      scheduler[c].lambda >= 0 /\ scheduler[c].lambda < 1000

\* C16: when estimate_posteriors ends at the iteration cap, no exception is
\* in flight and no warning of a failed component is logged; the functor
\* goes on to the write-back, after which every requested vertex of the
\* component holds the posterior of the marginal the engine returned for it;
\* the run is not aborted and the pass ends with every component of at least
\* 2 vertices processed.
C16_IterationCapIsNoError ==
  /\ \A c \in CCs : scheduler[c].ended = "iteration_cap" =>
       /\ scheduler[c].max_nr_iterations = param.max_nr_iterations
       /\ thrown[c] = "none"
       /\ ~warned[c]
       /\ fpc[c] \in {"write", "done"}
       /\ fpc[c] = "done" =>
            /\ outcome[c] = "ok"
            /\ DOMAIN pmfs[c] = Range(posteriorVars[c])
            /\ writes[c] = {Fg(c, i) : i \in Range(posteriorVars[c])}
            /\ \A i \in Range(posteriorVars[c]) :
                 score[Fg(c, i)] = Posterior(pmfs[c][i])
  /\ pc # "aborted"
  /\ (InPass /\ PassOver) =>
       \A c \in CCs : NumVertices(c) >= 2 => outcome[c] \in {"ok", "failed"}

\* C16 witness: with max_nr_iterations = 1 inference on component 2 stopped
\* at the cap, its posteriors are written, and component 1 was processed in
\* the same pass.
C16_Witness ==
  /\ pc = "final_pass"
  /\ param.max_nr_iterations = 1
  /\ scheduler[2].ended = "iteration_cap"
  /\ fpc[2] = "done"
  /\ outcome[2] = "ok"
  /\ score[3] = 700
  /\ score[5] = 700
  /\ outcome[1] = "ok"
  /\ scheduler[1].ended = "converged"

Before(v, w) ==
  \/ CCOf(v) < CCOf(w)
  \/ CCOf(v) = CCOf(w) /\ LocalOf(CCOf(v), v) < LocalOf(CCOf(w), w)

\* C18: no group record exists before the annotation, which starts only when
\* the final pass has returned on every component; while it runs the records
\* present are those of the components already visited, complete, one
\* component at a time, and they stand in component order and within a
\* component in vertex order.
C18_AnnotationAfterFinalPassInOrder ==
  /\ pc \notin {"annotate", "done"} => groups = << >> /\ groupSrc = << >>
  /\ pc \in {"annotate", "done"} =>
       /\ passes.final = 1
       /\ PassOver
       /\ Len(groups) = Len(groupSrc)
       /\ Range(groupSrc) =
            {v \in ProteinGroups :
               CCOf(v) < annIdx /\ NumVertices(CCOf(v)) >= 2}
       /\ \A j \in 1..Len(groupSrc) : \A k \in 1..Len(groupSrc) :
            j < k => Before(groupSrc[j], groupSrc[k])
       /\ \A k \in 1..Len(groups) :
            groups[k].probability = score[groupSrc[k]]

\* C18 witness: after a grid search and the final pass the three records of
\* the graph with the groups 2 (component 1) and 4, 6 (component 2) are
\* appended in that order.
C18_Witness ==
  /\ pc = "done"
  /\ passes.grid = 5
  /\ groupSrc = <<2, 4, 6>>
  /\ groups[1].accessions = <<1>>
  /\ groups[2].accessions = <<3>>
  /\ groups[3].accessions = <<5>>
  /\ groups[3].probability = 700

InSupport(pmf, k) == k >= pmf.first /\ k <= LastSupport(pmf)

\* The value the claim gives for P(x = 1)
ClaimedPosterior(pmf) ==
  IF InSupport(pmf, 0) THEN 1000 - pmf.table[(0 - pmf.first) + 1]
  ELSE IF InSupport(pmf, 1) THEN pmf.table[(1 - pmf.first) + 1]
  ELSE 0

\* The probability a marginal gives to the value k: 0 outside its support
Mass(pmf, k) == IF InSupport(pmf, k) THEN pmf.table[(k - pmf.first) + 1] ELSE 0

\* The marginal of a Boolean variable: its support lies within {0, 1}
BooleanSupport(pmf) == pmf.first >= 0 /\ LastSupport(pmf) <= 1

Written(c) == fpc[c] = "done" /\ outcome[c] = "ok"

FactorsFor(c, i) ==
  LET mine(f) == f.var = i IN SelectSeq(factors[c], mine)

IsRequested(c, i) == i \in Range(posteriorVars[c])

\* The vertex loop of the invocation on component c has run to its end
LoopDone(c) == fpc[c] \in {"built", "write"} \/ Written(c)

\* C21: every vertex is dispatched on its kind with in = its neighbours of
\* strictly lower kind: a PSM inserts exactly a SumEvidence factor (N = its
\* number of peptide evidences, parent = in[0]) and a PeptideEvidence factor
\* with its score and is requested iff update_PSM_probabilities; a peptide
\* group inserts one adder over in and is never requested; a protein group
\* inserts one adder over in and is requested iff
\* annotate_group_probabilities; a protein inserts one protein factor and is
\* always requested; any other kind inserts nothing.  After a successful
\* invocation exactly the requested vertices are written.
C21_DispatchOnVertexKind ==
  \A c \in CCs :
    /\ LoopDone(c) =>
         \A i \in 1..NumVertices(c) :
           LET v == Fg(c, i)
               fs == FactorsFor(c, i)
           IN  CASE Kind(v) = PSMKind ->
                      /\ fs = <<[type |-> "SumEvidence", var |-> i,
                                 in |-> <<In(c, i)[1]>>,
                                 n |-> NrEvidences(v), prob |-> 0],
                                [type |-> "PeptideEvidence", var |-> i,
                                 in |-> << >>, n |-> 0,
                                 prob |-> entry.score[v]]>>
                      /\ Kind(Fg(c, In(c, i)[1])) < PSMKind
                      /\ IsRequested(c, i) <=> param.update_PSM_probabilities
                 [] Kind(v) = PeptideGroupKind ->
                      /\ fs = <<[type |-> "PeptideProbabilisticAdder",
                                 var |-> i, in |-> In(c, i), n |-> 0,
                                 prob |-> 0]>>
                      /\ ~IsRequested(c, i)
                 [] Kind(v) = ProteinGroupKind ->
                      /\ fs = <<[type |-> "PeptideProbabilisticAdder",
                                 var |-> i, in |-> In(c, i), n |-> 0,
                                 prob |-> 0]>>
                      /\ IsRequested(c, i) <=> param.annotate_group_probabilities
                 [] Kind(v) = ProteinKind ->
                      /\ Len(fs) = 1
                      /\ fs[1].type = "Protein"
                      /\ IsRequested(c, i)
                 [] OTHER ->
                      /\ fs = << >>
                      /\ ~IsRequested(c, i)
    /\ Written(c) =>
         /\ writes[c] = {Fg(c, i) : i \in Range(posteriorVars[c])}
         /\ \A i \in 1..NumVertices(c) :
              IF IsRequested(c, i)
              THEN score[Fg(c, i)] = Posterior(pmfs[c][i])
              ELSE score[Fg(c, i)] = entry.score[Fg(c, i)]

\* C21 witness: with update_PSM_probabilities on and
\* annotate_group_probabilities off the invocation on component 2 of the
\* graph with a vertex of another kind has inserted five factors, none for
\* vertex 6, and has written the proteins 3 and 4 and the PSM 7 but not the
\* group 5.
C21_Witness ==
  /\ shape = "other_kind"
  /\ param.update_PSM_probabilities
  /\ ~param.annotate_group_probabilities
  /\ Written(2)
  /\ Len(factors[2]) = 5
  /\ FactorsFor(2, 4) = << >>
  /\ posteriorVars[2] = <<1, 2, 5>>
  /\ writes[2] = {3, 4, 7}
  /\ score[7] = 700
  /\ score[5] = 0

\* No per-component functor is between its start and its return
NoFunctorRunning == \A c \in CCs : fpc[c] \in {"idle", "done"}

\* C22: every grid-search evaluation is sequential: the three model
\* parameters are set to the tuple, the pass then runs on all components to
\* its end, and the scoring callback is then invoked once.  The scoring
\* callback runs only while no functor is running and once per evaluation,
\* and no parameter is written while a functor of any pass is running.
C22_EvaluationIsSequential ==
  /\ [](/\ ~NoFunctorRunning => pc \in {"gs_pass", "final_pass", "aborted"}
        /\ pc = "gs_pass" =>
             /\ ModelTuple(param) = TupleAt(search, ComboIndex(search, combo))
             /\ passes.grid = combo + 1
             /\ passes.scored = combo
        /\ pc = "gs_eval" =>
             /\ NoFunctorRunning
             /\ passes.grid = combo
             /\ passes.scored = combo)
  /\ [][/\ passes.scored' # passes.scored =>
             /\ pc = "gs_pass"
             /\ NoFunctorRunning
             /\ passes.scored' = passes.scored + 1
             /\ passes.grid' = passes.grid
             /\ fpc' = fpc
             /\ param' = param
        /\ param' # param => NoFunctorRunning
        /\ passes.grid' # passes.grid =>
             /\ pc = "gs_eval" /\ pc' = "gs_pass"
             /\ passes.scored = passes.grid
             /\ \A c \in CCs : fpc'[c] = "ready"]_vars

\* C22 witness: two evaluations are finished and scored, the third pass is
\* running with the third tuple: component 1 has returned, component 2 is
\* about to write, no third scoring has happened.
C22_Witness ==
  /\ pc = "gs_pass"
  /\ passes.grid = 3
  /\ passes.scored = 2
  /\ param.alpha = 500
  /\ fpc[1] = "done"
  /\ fpc[2] = "write"

\* The score a single pass leaves on vertex v of component c when it is run
\* on the scores at entry, ends on c as the final pass did and, where it
\* succeeded, got the marginals the final pass got
DirectRunScore(c, v) ==
  IF outcome[c] = "ok" /\ LocalOf(c, v) \in Range(posteriorVars[c])
  THEN Posterior(pmfs[c][LocalOf(c, v)])
  ELSE entry.score[v]

\* C23: no grid-search pass changes an input of the final pass (PSM scores,
\* "Prior" values), and at the return every protein score is the one a
\* direct single pass with the best tuple leaves, also on a component on
\* which the final pass failed.
C23_ScoresAsOfDirectRun ==
  /\ passes.final = 0 => \A v \in PSMs : score[v] = entry.score[v]
  /\ (pc # "entry" /\ entry.param.user_defined_priors) =>
       prior = [v \in Proteins |-> entry.score[v]]
  /\ (pc # "entry" /\ ~entry.param.user_defined_priors) => DOMAIN prior = {}
  /\ pc = "done" =>
       /\ ModelTuple(param) = BestTuple(search, bestParams)
       /\ \A c \in CCs : \A v \in Vertices(c) :
            Kind(v) = ProteinKind => score[v] = DirectRunScore(c, v)

IsPrefix(s, t) == Len(s) <= Len(t) /\ SubSeq(t, 1, Len(s)) = s

\* C24: the annotator only appends to the list of indistinguishable groups:
\* the records present at the call stay in place unchanged, no step removes
\* or changes a record, and at the return the list is longer than at the call
\* by the number of protein-group vertices in components of at least 2
\* vertices, whether annotate_group_probabilities is enabled or not.
C24_AnnotatorOnlyAppends ==
  /\ [](/\ IsPrefix(entry.groups, groups)
        /\ pc \notin {"annotate", "done"} => groups = entry.groups
        /\ pc = "done" =>
             Len(groups) = Len(entry.groups) +
               Cardinality({v \in AllVertices :
                              /\ Kind(v) = ProteinGroupKind
                              /\ Len(VertexSeq(CCOf(v))) >= 2}))
  /\ [][IsPrefix(groups, groups')]_vars

\* C24 witness: the list held the three records of an earlier call on the
\* same data; the call, with annotate_group_probabilities off, returned with
\* the same three groups appended again behind them.
C24_Witness ==
  /\ pc = "done"
  /\ ~entry.param.annotate_group_probabilities
  /\ Len(entry.groups) = 3
  /\ Len(groups) = 6
  /\ SubSeq(groups, 1, 3) = entry.groups
  /\ \A k \in 1..3 : groups[k + 3].accessions = entry.groups[k].accessions
  /\ groupSrc = <<2, 4, 6>>

=============================================================================
